---------------------------- MODULE Spec2Model ----------------------------
(***************************************************************************)
(* Model of the YouTube collection and rating tool.                        *)
(*                                                                         *)
(*   src/youtube-collector-streamlit.py              app = "collector"      *)
(*       YouTubeCollector, GoogleSheetsExporter, main (collector + rater)  *)
(*   src/youtube-collector-streamlit-updatedmanus.py app = "optimized"      *)
(*       YouTubeCollectorOptimized, main                                   *)
(*                                                                         *)
(* External collaborators (search API, metadata API, oEmbed, the sheets    *)
(* backend, the scorer's inputs) are inputs of the actions: every action   *)
(* takes the outcome of each external call it makes as a parameter and the *)
(* specifications enumerate those outcomes from bounded sets.              *)
(***************************************************************************)
EXTENDS Integers, Sequences, FiniteSets, TLC

\* ------------------------------------------------------------------ bounds
MaxVideos == 2            \* distinct video ids the search API can return
MaxResults == 2           \* items on one search page
QueriesPerCategory == 2   \* queries in each category's list
MaxExports == 1           \* manual exports of one session
MaxPasses == 3            \* rating passes of one session
MaxMoments == 1           \* timestamped moments of one analysis
MaxBackoffs == 1          \* times the backend raises the limiter's spacing
MaxItems == 2             \* comments in one commentThreads response

\* ------------------------------------------------------- program constants
max_attempts == 30               \* collector: attempts of one run
max_attempts_opt == 50           \* optimized: attempts of one run
max_pages == 3                   \* collector: pages fetched per query
max_consecutive_failures == 10   \* optimized: consecutive empty searches
MinDurationSeconds == 90         \* duration floor
MinViewCount == 10000            \* view-count floor
PromoteThreshold == 65           \* 6.5, in tenths of a point
SearchQuotaCost == 100           \* optimized: quota units of one search
StayThreshold == 3               \* optimized: finds that keep the category

\* times of the rate limiter, in eighths of a second
MinDelay == 12                   \* min_delay = 1.5 s
MaxMinDelay == 40                \* min_delay never exceeds 5.0 s
WindowLength == 800              \* the sliding window of 100 s
OneSecond == 8                   \* the extra second of the window wait
max_requests_per_100s == 80      \* requests allowed in one window
SinceEpoch == 801                \* time.time() at the first call: beyond a window

\* ------------------------------------------------------------ input domains
VideoIds == {ToString(i) : i \in 1..MaxVideos}
CategoryNames == <<"heartwarming", "funny", "traumatic">>
Titles == {"plain", "unwanted"}
ErrorKinds == {"quotaExceeded", "forbidden", "backendError"}
Durations == {45, 75, 90}
ViewCounts == {9999, 10000}
NoResult == [tag |-> "None"]
NoCall == [fn |-> "None"]

VARIABLES
    app,                 \* which of the two programs runs
    \* st.session_state
    is_collecting, is_rating, collected_videos, used_queries, stats,
    \* the spreadsheet: raw_links (pending), discarded, tobe_links (promoted),
    \* time_comments, used_queries
    raw_links, discarded, tobe_links, time_comments, used_queries_sheet,
    \* the collector object
    existing_sheet_ids, discarded_urls,
    \* parameters and locals of the running collection
    pc, target_count, category, require_captions, auto_export,
    collected, category_index, attempts, videos_checked_ids,
    consecutive_failures, query, pages_fetched, search_results,
    next_page_token, videos_found,
    \* observation of the last step: how the run ended, the result of the
    \* validation the step made, the external calls it issued, whether a
    \* quota/authorization failure was reported in this run, whether every
    \* search of this run came back empty, the rating pass it made, and the
    \* queries random.choice has returned in this run
    run_state, last, calls, fatal_seen, all_empty, rated, selected,
    \* GoogleSheetsRateLimiter: the recorded request times of the sliding
    \* window and the time of the last request, both counted in eighths of a
    \* second from the last recorded request (the code only uses differences
    \* of times), the minimum spacing, and the sleep of the last call
    sheets_api_timestamps, sheets_last_request, min_delay, delay_needed,
    \* VideoRater: the call of the comment fetcher or the scorer that is being
    \* made, then what it returned
    computed,
    \* counters that bound a session
    exports, passes

sessionVars == <<is_collecting, is_rating, collected_videos, used_queries, stats>>
sheetVars == <<raw_links, discarded, tobe_links, time_comments, used_queries_sheet>>
collectorVars == <<existing_sheet_ids, discarded_urls>>
paramVars == <<target_count, category, require_captions, auto_export>>
loopVars == <<collected, category_index, attempts, videos_checked_ids,
              consecutive_failures, query, pages_fetched, search_results,
              next_page_token, videos_found>>
obsVars == <<run_state, last, calls, fatal_seen, all_empty, rated, selected>>
boundVars == <<exports, passes>>
limiterVars == <<sheets_api_timestamps, sheets_last_request, min_delay, delay_needed>>
vars == <<app, pc, sessionVars, sheetVars, collectorVars, paramVars, loopVars, obsVars,
         boundVars, limiterVars, computed>>

\* GoogleSheetsRateLimiter.__init__ as the exporter builds it (line 237):
\* no request recorded, the last request at the epoch, which is further back
\* than any window
LimiterInit ==
    /\ sheets_api_timestamps = <<>>
    /\ sheets_last_request = 0 - SinceEpoch
    /\ min_delay = MinDelay
    /\ delay_needed = 0

\* ------------------------------------------------------------------ helpers
\* video_url = f"https://youtube.com/watch?v={video_id}"
VideoUrl(video_id) == "https://youtube.com/watch?v=" \o video_id

\* collector_stats / stats as reset by Start and Reset
ZeroStats == [checked |-> 0, found |-> 0, rejected |-> 0,
              has_captions |-> 0, no_captions |-> 0,
              quota_used |-> 0, quota_saved |-> 0]

\* self.search_queries[category]
SearchQueries(cat) == {<<cat, i>> : i \in 1..QueriesPerCategory}

\* categories = ['heartwarming', 'funny', 'traumatic'] if mixed else [category]
CategoriesOf(mode) == IF mode = "mixed" THEN CategoryNames ELSE <<mode>>

\* current_category = categories[category_index % len(categories)]
CurrentCategory(mode, index) ==
    CategoriesOf(mode)[(index % Len(CategoriesOf(mode))) + 1]


\* ------------------------------------------------- responses of the APIs
\* videos().list(part='snippet,contentDetails,statistics', id=video_id):
\* an item, an empty item list, or an HttpError of some kind.  kw: the
\* title and description hold a keyword of the target category; old:
\* publishedAt is more than 180 days ago; tags: what the tags hold.
\* contentDetails.duration is an ISO 8601 text that parses or does not;
\* statistics is there with a viewCount, there without one, or missing.
DurationTexts == {[parses |-> FALSE, seconds |-> 0]}
                 \cup {[parses |-> TRUE, seconds |-> d] : d \in Durations}
StatisticsObjects == {[has |-> "no_statistics", viewCount |-> 0],
                      [has |-> "no_viewCount", viewCount |-> 0]}
                     \cup {[has |-> "viewCount", viewCount |-> n] : n \in ViewCounts}
FoundDetails == [kind : {"found"}, caption : BOOLEAN, duration : DurationTexts,
                 statistics : StatisticsObjects, kw : BOOLEAN,
                 old : BOOLEAN, tags : {"plain", "music", "compilation"}]
FailedDetails == {[kind |-> "not_found"]} \cup {[kind |-> e] : e \in ErrorKinds}

\* requests.get(oembed): status 200 with a title and an embed, or not
OEmbedOk == [kind : {"ok"}, title : {"plain", "music", "compilation"},
             short : BOOLEAN]
OEmbedFailed == {[kind |-> "fail"]}

\* ---------------------------------------------------------- validation
\* The tagged result of one validation: tag Accept | Reject | Raise (an
\* exception leaves the function), the reason, the external calls made in
\* order, the caption bit counted (yes | no | none), quota units counted.
Result(tag, reason, cs, cap, used, saved) ==
    [tag |-> tag, reason |-> reason, calls |-> cs, caption |-> cap,
     used |-> used, saved |-> saved]

\* existing_ids = [v['video_id'] for v in st.session_state.collected_videos]
ExistingIds(videos) == {videos[i].video_id : i \in 1..Len(videos)}

\* a duplicate check that forgets the ids loaded from the pending store
IsDuplicateInSessionOnly(video_id, videos, sheet_ids) ==
    video_id \in {videos[i].video_id : i \in 1..Len(videos)}

\* a discarded check that never finds the URL
IsDiscardedNever(video_id, urls) == FALSE

\* video_id in existing_ids or video_id in self.existing_sheet_ids
IsDuplicate(video_id, videos, sheet_ids) ==
    video_id \in ExistingIds(videos) \/ video_id \in sheet_ids

\* video_url in self.discarded_urls
IsDiscarded(video_id, urls) == VideoUrl(video_id) \in urls

\* get_video_details / get_video_details_api: None unless an item came back
DetailsFetched(resp) == resp.kind = "found"

\* int(details['statistics'].get('viewCount', 0))
ViewCountOf(resp) ==
    IF resp.statistics.has = "viewCount" THEN resp.statistics.viewCount ELSE 0

\* check_caption_availability: the bit, counted in the statistics
CaptionBit(resp) == IF resp.caption THEN "yes" ELSE "no"

\* a caption check that does not look at require_captions
MissingCaptionsAlways(resp, rc) == ~resp.caption

\* lines 760-763: if require_captions: ... if not has_captions
MissingCaptions(resp, rc) == rc /\ ~resp.caption

\* a duration floor of one minute
TooShortBelowAMinute(resp) == resp.duration.seconds < 60

\* duration_seconds < 90
TooShort(resp) == resp.duration.seconds < MinDurationSeconds

\* a view-count floor that excludes the boundary
ViewCountTooLowAtFloor(resp) ==
    (IF resp.statistics.has = "viewCount" THEN resp.statistics.viewCount ELSE 0)
        <= MinViewCount

\* view_count < 10000
ViewCountTooLow(resp) == ViewCountOf(resp) < MinViewCount

\* YouTubeCollector.validate_video_optimized, from the details on
ValidateDetails(resp, rc) ==
    LET cs == <<"videos.list">> IN
    IF ~DetailsFetched(resp)
      THEN Result("Reject", "Could not fetch details", cs, "none", 0, 0)
    ELSE IF MissingCaptions(resp, rc)
      THEN Result("Reject", "No captions available", cs, "no", 0, 0)
    ELSE IF ~resp.duration.parses
      THEN Result("Raise", "ISO8601Error", cs, CaptionBit(resp), 0, 0)
    ELSE IF TooShort(resp)
      THEN Result("Reject", "Video too short", cs, CaptionBit(resp), 0, 0)
    ELSE IF resp.statistics.has = "no_statistics"
      THEN Result("Raise", "KeyError", cs, CaptionBit(resp), 0, 0)
    ELSE IF ViewCountTooLow(resp)
      THEN Result("Reject", "View count too low", cs, CaptionBit(resp), 0, 0)
    ELSE IF ~resp.kw
      THEN Result("Reject", "No category keywords found", cs, CaptionBit(resp), 0, 0)
    ELSE Result("Accept", "", cs, CaptionBit(resp), 0, 0)

\* a validation that fetches the details before it looks at the sets
ValidateVideoFetchFirst(video_id, videos, sheet_ids, urls, rc, resp) ==
    IF ~DetailsFetched(resp) THEN ValidateDetails(resp, rc)
    ELSE IF IsDuplicate(video_id, videos, sheet_ids)
      THEN Result("Reject", "Duplicate video", <<"videos.list">>, "none", 0, 0)
    ELSE IF IsDiscarded(video_id, urls)
      THEN Result("Reject", "Already processed", <<"videos.list">>, "none", 0, 0)
    ELSE ValidateDetails(resp, rc)

\* YouTubeCollector.validate_video_optimized
ValidateVideo(video_id, videos, sheet_ids, urls, rc, resp) ==
    IF IsDuplicate(video_id, videos, sheet_ids)
      THEN Result("Reject", "Duplicate video", <<>>, "none", 0, 0)
    ELSE IF IsDiscarded(video_id, urls)
      THEN Result("Reject", "Already processed", <<>>, "none", 0, 0)
    ELSE ValidateDetails(resp, rc)

\* YouTubeCollectorOptimized.validate_video_optimized, STEP 5 on: the body
\* of the try block after the details call
OptValidateDetails(resp) ==
    LET cs == <<"oembed", "videos.list">>
        u == IF DetailsFetched(resp) THEN 1 ELSE 0 IN
    IF ~DetailsFetched(resp)
      THEN Result("Reject", "Could not fetch video details from API", cs, "none", u, 1)
    ELSE IF ~resp.caption
      THEN Result("Reject", "No captions available", cs, "none", u, 1)
    ELSE IF resp.old
      THEN Result("Reject", "Video older than 6 months", cs, "none", u, 1)
    ELSE IF ~resp.duration.parses
      THEN Result("Reject", "Validation error", cs, "none", u, 1)
    ELSE IF TooShort(resp)
      THEN Result("Reject", "Video too short", cs, "none", u, 1)
    ELSE IF resp.statistics.has = "no_statistics"
      THEN Result("Reject", "Validation error", cs, "none", u, 1)
    ELSE IF ViewCountTooLow(resp)
      THEN Result("Reject", "View count too low", cs, "none", u, 1)
    ELSE IF resp.tags = "music"
      THEN Result("Reject", "Music video detected in tags", cs, "none", u, 1)
    ELSE IF resp.tags = "compilation"
      THEN Result("Reject", "Compilation detected in tags", cs, "none", u, 1)
    ELSE Result("Accept", "Passed all checks", cs, "none", u, 1)

\* YouTubeCollectorOptimized.validate_video_optimized
OptValidateVideo(video_id, videos, oembed, resp) ==
    IF oembed.kind # "ok"
      THEN Result("Reject", "Could not fetch oEmbed data", <<"oembed">>, "none", 0, 0)
    ELSE IF oembed.title = "music"
      THEN Result("Reject", "Music video detected in title", <<"oembed">>, "none", 0, 1)
    ELSE IF oembed.title = "compilation"
      THEN Result("Reject", "Compilation detected in title", <<"oembed">>, "none", 0, 1)
    ELSE IF oembed.short
      THEN Result("Reject", "Detected as YouTube Short", <<"oembed">>, "none", 0, 1)
    ELSE IF video_id \in ExistingIds(videos)
      THEN Result("Reject", "Duplicate video", <<"oembed">>, "none", 0, 1)
    ELSE OptValidateDetails(resp)

\* the record appended on Accept (the fields the stores and the rater read)
VideoRecord(video_id, cat, resp) ==
    [video_id |-> video_id, url |-> VideoUrl(video_id), category |-> cat,
     duration_seconds |-> resp.duration.seconds, view_count |-> ViewCountOf(resp)]


\* ------------------------------------------------------------- search
\* One page of the search response: items with distinct ids, each with a
\* title that holds one of the unwanted words or does not.
SearchItems == [id : VideoIds, title : Titles]
SearchPages ==
    UNION {{p \in [1..n -> SearchItems] :
               \A i, j \in 1..n : p[i].id = p[j].id => i = j} : n \in 0..MaxResults}
SearchOutcomes == {"ok"} \cup ErrorKinds

\* search_videos (collector): HttpError gives [], None; otherwise the items
\* whose title holds none of the unwanted words
PreFilter(items) == SelectSeq(items, LAMBDA it : it.title # "unwanted")
SearchVideos(out, items) == IF out = "ok" THEN PreFilter(items) ELSE <<>>

\* search_videos (optimized): any exception gives []
OptSearchVideos(out, items) == IF out = "ok" THEN items ELSE <<>>

\* the first unused query of the shuffled list, or random.choice once all
\* are used
SelectableQueries(cat, used) ==
    IF SearchQueries(cat) \ used # {} THEN SearchQueries(cat) \ used
    ELSE SearchQueries(cat)

\* quotaExceeded and forbidden are the quota and authorization failures
IsFatal(kind) == kind \in {"quotaExceeded", "forbidden"}

\* ------------------------------------------------------------- sheets
\* the row export_to_sheets appends for a record
RawRow(rec) == [video_id |-> rec.video_id, url |-> rec.url, category |-> rec.category]
RawRows(videos) == [i \in 1..Len(videos) |-> RawRow(videos[i])]

\* load_existing_sheet_ids: the ids of raw_links, or set() on any exception
LoadExistingSheetIds(ok, rows) ==
    IF ok THEN {rows[i].video_id : i \in 1..Len(rows)} \ {""} ELSE {}

\* load_discarded_urls / load_used_queries: the rows, or set() on exception
LoadSet(ok, sheet) == IF ok THEN sheet ELSE {}

\* export_to_sheets (collector): rows are appended one call at a time, n of
\* them before a call fails (all of them when none does)
ExportToSheets(rows, videos, n) == rows \o SubSeq(RawRows(videos), 1, n)

\* ------------------------------------------------- collector: the run
\* The collector object, the arguments and the locals of a run are gone when
\* the run is over: they are back at their values of Init.
RunIsOver ==
    /\ existing_sheet_ids' = {} /\ discarded_urls' = {}
    /\ target_count' = 1 /\ category' = "heartwarming"
    /\ require_captions' = TRUE /\ auto_export' = TRUE
    /\ collected' = <<>> /\ category_index' = 0 /\ attempts' = 0
    /\ videos_checked_ids' = {} /\ consecutive_failures' = 0
    /\ query' = <<>> /\ pages_fetched' = 0 /\ search_results' = <<>>
    /\ next_page_token' = FALSE /\ videos_found' = 0
    /\ fatal_seen' = FALSE /\ all_empty' = TRUE /\ selected' = {}

LoopContinues == Len(collected) < target_count /\ attempts < max_attempts

\* for item in search_results: if len(collected) >= target_count: break
TargetReachedNever == FALSE

TargetReached == Len(collected) >= target_count

\* main, "Start Collection" up to the call of collect_videos_with_pagination,
\* and its first lines: the three loads and the locals
StartCollection(tc, mode, rc, ae, quota_available, okIds, okDisc, okQ) ==
    /\ app = "collector" /\ pc = "idle" /\ ~is_collecting
    /\ stats' = ZeroStats
    /\ target_count' = tc /\ category' = mode
    /\ require_captions' = rc /\ auto_export' = ae
    /\ last' = NoResult /\ calls' = <<>> /\ rated' = NoResult
    /\ fatal_seen' = FALSE /\ all_empty' = TRUE
    /\ IF quota_available
         THEN /\ is_collecting' = TRUE
              /\ existing_sheet_ids' = LoadExistingSheetIds(okIds, raw_links)
              /\ discarded_urls' = LoadSet(okDisc, discarded)
              /\ used_queries' = used_queries \cup LoadSet(okQ, used_queries_sheet)
              /\ collected' = <<>> /\ category_index' = 0 /\ attempts' = 0
              /\ videos_checked_ids' = {} /\ consecutive_failures' = 0
              /\ query' = <<>> /\ pages_fetched' = 0 /\ search_results' = <<>>
              /\ next_page_token' = FALSE /\ videos_found' = 0
              /\ pc' = "head" /\ run_state' = "Running"
         ELSE /\ is_collecting' = FALSE
              /\ UNCHANGED <<collectorVars, loopVars, used_queries, pc, run_state>>
    /\ UNCHANGED <<app, limiterVars, computed, selected, is_rating, collected_videos, sheetVars, exports, passes>>

\* lines 831-852: the category, the query, the page counter
SelectQuery(q) ==
    /\ app = "collector" /\ pc = "head" /\ LoopContinues
    /\ q \in SelectableQueries(CurrentCategory(category, category_index), used_queries)
    /\ query' = q /\ used_queries' = used_queries \cup {q}
    /\ pages_fetched' = 0 /\ next_page_token' = FALSE
    /\ pc' = "page"
    /\ last' = NoResult /\ calls' = <<>>
    /\ UNCHANGED <<app, limiterVars, computed, selected, is_collecting, is_rating, collected_videos, stats, sheetVars,
                   collectorVars, paramVars, collected, category_index, attempts,
                   videos_checked_ids, consecutive_failures, search_results,
                   videos_found, run_state, fatal_seen, all_empty, rated, boundVars>>

\* lines 854-870: one search call of the pagination loop
SearchPage(out, items, token) ==
    /\ app = "collector" /\ pc = "page"
    /\ calls' = <<"search.list">>
    /\ fatal_seen' = (fatal_seen \/ IsFatal(out))
    /\ all_empty' = (all_empty /\ SearchVideos(out, items) = <<>>)
    /\ IF SearchVideos(out, items) = <<>>
         THEN /\ pc' = "save"
              /\ UNCHANGED <<pages_fetched, search_results, next_page_token, videos_found>>
         ELSE /\ pages_fetched' = pages_fetched + 1
              /\ search_results' = SearchVideos(out, items)
              /\ next_page_token' = (out = "ok" /\ token)
              /\ videos_found' = 0
              /\ pc' = "items"
    /\ last' = NoResult
    /\ UNCHANGED <<app, limiterVars, computed, selected, sessionVars, sheetVars, collectorVars, paramVars, collected,
                   category_index, attempts, videos_checked_ids, consecutive_failures,
                   query, run_state, rated, boundVars>>

\* the statistics after one validation
CountResult(st, r) ==
    [st EXCEPT !.checked = @ + 1,
               !.found = @ + (IF r.tag = "Accept" THEN 1 ELSE 0),
               !.rejected = @ + (IF r.tag = "Reject" THEN 1 ELSE 0),
               !.has_captions = @ + (IF r.caption = "yes" THEN 1 ELSE 0),
               !.no_captions = @ + (IF r.caption = "no" THEN 1 ELSE 0),
               !.quota_used = @ + r.used,
               !.quota_saved = @ + r.saved]

\* the fields of the details the checks of validate read: contentDetails
\* (caption, duration), statistics, snippet.publishedAt
MetadataRead(resp) ==
    [kind |-> "found", caption |-> resp.caption, duration |-> resp.duration,
     statistics |-> resp.statistics, old |-> resp.old]

\* what the step reports of a validation: its result, and the details it
\* was given when the metadata call returned an item
Observed(video_id, r, resp) ==
    [tag |-> r.tag, reason |-> r.reason, video_id |-> video_id,
     details |-> IF r.calls # <<>> /\ r.calls[Len(r.calls)] = "videos.list"
                    /\ DetailsFetched(resp)
                 THEN MetadataRead(resp) ELSE [kind |-> "none"]]

\* lines 872-923: one item of the page
ProcessItem(resp) ==
    /\ app = "collector" /\ pc = "items"
    /\ search_results # <<>> /\ ~TargetReached
    /\ LET video_id == Head(search_results).id
           r == ValidateVideo(video_id, collected_videos, existing_sheet_ids,
                              discarded_urls, require_captions, resp)
           rec == VideoRecord(video_id, CurrentCategory(category, category_index), resp)
       IN IF video_id \in videos_checked_ids
            THEN /\ search_results' = Tail(search_results)
                 /\ last' = NoResult /\ calls' = <<>>
                 /\ UNCHANGED <<videos_checked_ids, stats, collected, collected_videos,
                                videos_found, pc, run_state, is_collecting, fatal_seen>>
                 /\ UNCHANGED <<collectorVars, paramVars, category_index, attempts,
                                consecutive_failures, query, pages_fetched,
                                next_page_token, all_empty, selected>>
          ELSE IF r.tag = "Raise"
            THEN \* the exception leaves the loop and the method; main reports
                 \* "Collection error" and clears the flag
                 /\ stats' = CountResult(stats, r)
                 /\ last' = Observed(video_id, r, resp) /\ calls' = r.calls
                 /\ pc' = "idle" /\ run_state' = "Aborted"
                 /\ is_collecting' = FALSE
                 /\ RunIsOver
                 /\ UNCHANGED collected_videos
          ELSE /\ videos_checked_ids' = videos_checked_ids \cup {video_id}
               /\ stats' = CountResult(stats, r)
               /\ last' = Observed(video_id, r, resp) /\ calls' = r.calls
               /\ fatal_seen' = (fatal_seen \/ (r.calls # <<>> /\ IsFatal(resp.kind)))
               /\ IF r.tag = "Accept"
                    THEN /\ collected' = Append(collected, rec)
                         /\ collected_videos' = Append(collected_videos, rec)
                         /\ videos_found' = videos_found + 1
                    ELSE UNCHANGED <<collected, collected_videos, videos_found>>
               /\ search_results' = Tail(search_results)
               /\ UNCHANGED <<pc, run_state, is_collecting>>
               /\ UNCHANGED <<collectorVars, paramVars, category_index, attempts,
                              consecutive_failures, query, pages_fetched,
                              next_page_token, all_empty, selected>>
    /\ UNCHANGED <<app, limiterVars, computed, is_rating, used_queries, sheetVars, rated, boundVars>>

\* lines 925-931 and the condition of the pagination loop
EndPage ==
    /\ app = "collector" /\ pc = "items"
    /\ search_results = <<>> \/ TargetReached
    /\ pc' = IF /\ next_page_token /\ videos_found > 0
                /\ pages_fetched < max_pages /\ Len(collected) < target_count
             THEN "page" ELSE "save"
    /\ search_results' = <<>>
    /\ last' = NoResult /\ calls' = <<>>
    /\ UNCHANGED <<app, limiterVars, computed, selected, sessionVars, sheetVars, collectorVars, paramVars, collected,
                   category_index, attempts, videos_checked_ids, consecutive_failures,
                   query, pages_fetched, next_page_token, videos_found, run_state,
                   fatal_seen, all_empty, rated, boundVars>>

\* lines 933-940: save_used_query (its exception is swallowed), the counters
SaveUsedQuery(ok) ==
    /\ app = "collector" /\ pc = "save"
    /\ used_queries_sheet' = IF ok THEN used_queries_sheet \cup {query}
                             ELSE used_queries_sheet
    /\ category_index' = category_index + 1
    /\ attempts' = attempts + 1
    /\ pc' = "head"
    /\ last' = NoResult /\ calls' = <<>>
    /\ UNCHANGED <<app, limiterVars, computed, selected, sessionVars, raw_links, discarded, tobe_links, time_comments,
                   collectorVars, paramVars, collected, videos_checked_ids,
                   consecutive_failures, query, pages_fetched, search_results,
                   next_page_token, videos_found, run_state, fatal_seen, all_empty,
                   rated, boundVars>>

\* line 942 and main lines 1575-1620: the return, the auto-export of the
\* run's videos (n rows reach the sheet), the flag
ReturnCollected(n) ==
    /\ app = "collector" /\ pc = "head" /\ ~LoopContinues
    /\ n \in 0..Len(collected)
    /\ raw_links' = IF auto_export /\ collected # <<>>
                    THEN ExportToSheets(raw_links, collected, n) ELSE raw_links
    /\ is_collecting' = FALSE
    /\ pc' = "idle" /\ run_state' = "Completed"
    /\ last' = NoResult /\ calls' = <<>>
    /\ RunIsOver
    /\ UNCHANGED <<app, limiterVars, computed, is_rating, collected_videos, used_queries, stats, discarded,
                   tobe_links, time_comments, used_queries_sheet, rated, boundVars>>

\* main, "Stop": the button is enabled while is_collecting
Stop ==
    /\ is_collecting
    /\ is_collecting' = FALSE
    /\ last' = NoResult /\ calls' = <<>>
    /\ UNCHANGED <<app, limiterVars, computed, selected, pc, is_rating, collected_videos, used_queries, stats, sheetVars,
                   collectorVars, paramVars, loopVars, run_state, fatal_seen,
                   all_empty, rated, boundVars>>


\* ------------------------------------------------- optimized: the run
OptLoopContinues == Len(collected) < target_count /\ attempts < max_attempts_opt

\* export_to_sheets (optimized): one append_rows call, which fails or not
OptExportToSheets(rows, videos, ok) == IF ok THEN rows \o RawRows(videos) ELSE rows

\* main, "Start Collection" (optimized) and the first lines of collect_videos
OptStartCollection(tc, mode, ae) ==
    /\ app = "optimized" /\ pc = "idle" /\ ~is_collecting
    /\ is_collecting' = TRUE
    /\ stats' = ZeroStats
    /\ target_count' = tc /\ category' = mode
    /\ require_captions' = TRUE /\ auto_export' = ae
    /\ collected' = <<>> /\ category_index' = 0 /\ attempts' = 0
    /\ videos_checked_ids' = {} /\ consecutive_failures' = 0
    /\ query' = <<>> /\ pages_fetched' = 0 /\ search_results' = <<>>
    /\ next_page_token' = FALSE /\ videos_found' = 0
    /\ pc' = "head" /\ run_state' = "Running"
    /\ last' = NoResult /\ calls' = <<>> /\ rated' = NoResult
    /\ fatal_seen' = FALSE /\ all_empty' = TRUE /\ selected' = {}
    /\ UNCHANGED <<app, limiterVars, computed, is_rating, collected_videos, used_queries, sheetVars,
                   collectorVars, exports, passes>>

\* lines 352-374: the query, the search, the branch on an empty result
OptSearch(q, out, items) ==
    /\ app = "optimized" /\ pc = "head" /\ OptLoopContinues
    /\ q \in SearchQueries(CurrentCategory(category, category_index))
    /\ selected' = selected \cup {q}
    /\ calls' = <<"search.list">>
    /\ fatal_seen' = (fatal_seen \/ IsFatal(out))
    /\ all_empty' = (all_empty /\ OptSearchVideos(out, items) = <<>>)
    /\ stats' = [stats EXCEPT !.quota_used =
                    @ + (IF out = "ok" THEN SearchQuotaCost ELSE 0)]
    /\ IF OptSearchVideos(out, items) = <<>>
         THEN /\ consecutive_failures' = consecutive_failures + 1
              /\ IF consecutive_failures + 1 >= max_consecutive_failures
                   THEN /\ pc' = "summary"
                        /\ UNCHANGED <<attempts, category_index>>
                   ELSE /\ attempts' = attempts + 1
                        /\ category_index' = category_index + 1
                        /\ pc' = "head"
              /\ UNCHANGED <<search_results, videos_found>>
         ELSE /\ consecutive_failures' = 0
              /\ videos_found' = 0
              /\ search_results' = OptSearchVideos(out, items)
              /\ pc' = "items"
              /\ UNCHANGED <<attempts, category_index>>
    /\ last' = NoResult
    /\ UNCHANGED <<app, limiterVars, computed, is_collecting, is_rating, collected_videos, used_queries,
                   sheetVars, collectorVars, paramVars, collected, videos_checked_ids,
                   query, pages_fetched, next_page_token, run_state, rated, boundVars>>

\* lines 376-432: one item of the search result
OptProcessItem(oembed, resp) ==
    /\ app = "optimized" /\ pc = "items"
    /\ search_results # <<>> /\ ~TargetReached
    /\ LET video_id == Head(search_results).id
           r == OptValidateVideo(video_id, collected_videos, oembed, resp)
           rec == VideoRecord(video_id, CurrentCategory(category, category_index), resp)
       IN IF video_id \in videos_checked_ids
            THEN /\ last' = NoResult /\ calls' = <<>>
                 /\ UNCHANGED <<videos_checked_ids, stats, collected, collected_videos,
                                videos_found, fatal_seen>>
            ELSE /\ videos_checked_ids' = videos_checked_ids \cup {video_id}
                 /\ stats' = CountResult(stats, r)
                 /\ last' = Observed(video_id, r, resp) /\ calls' = r.calls
                 /\ fatal_seen' = (fatal_seen \/ (Len(r.calls) = 2 /\ IsFatal(resp.kind)))
                 /\ IF r.tag = "Accept"
                      THEN /\ collected' = Append(collected, rec)
                           /\ collected_videos' = Append(collected_videos, rec)
                           /\ videos_found' = videos_found + 1
                      ELSE UNCHANGED <<collected, collected_videos, videos_found>>
    /\ search_results' = Tail(search_results)
    /\ UNCHANGED <<app, limiterVars, computed, selected, pc, is_collecting, is_rating, used_queries, sheetVars,
                   collectorVars, paramVars, category_index, attempts,
                   consecutive_failures, query, pages_fetched, next_page_token,
                   run_state, all_empty, rated, boundVars>>

\* a rotation that keeps the category after a single hit only
OptNextCategoryIndexSingleHit(index, found) ==
    IF found = 1 THEN index ELSE index + 1

\* lines 436-444: the category index after a query whose results were looked at
OptNextCategoryIndex(index, found) ==
    IF found = 0 THEN index + 1
    ELSE IF found >= StayThreshold THEN index
    ELSE index + 1

\* lines 434-447: the end of the query
OptEndQuery ==
    /\ app = "optimized" /\ pc = "items"
    /\ search_results = <<>> \/ TargetReached
    /\ consecutive_failures' = IF videos_found = 0 THEN consecutive_failures + 1 ELSE 0
    /\ category_index' = OptNextCategoryIndex(category_index, videos_found)
    /\ attempts' = attempts + 1
    /\ search_results' = <<>>
    /\ pc' = "head"
    /\ last' = NoResult /\ calls' = <<>>
    /\ UNCHANGED <<app, limiterVars, computed, selected, sessionVars, sheetVars, collectorVars, paramVars, collected,
                   videos_checked_ids, query, pages_fetched, next_page_token,
                   videos_found, run_state, fatal_seen, all_empty, rated, boundVars>>

\* lines 455-467 and main lines 662-693: the summary divides quota_saved by
\* quota_used + quota_saved; then the return and the auto-export
OptReturnCollected(ok) ==
    /\ app = "optimized"
    /\ pc = "summary" \/ (pc = "head" /\ ~OptLoopContinues)
    /\ IF stats.quota_used + stats.quota_saved = 0
         THEN \* ZeroDivisionError leaves collect_videos
              /\ run_state' = "Aborted"
              /\ UNCHANGED raw_links
         ELSE /\ run_state' = "Completed"
              /\ raw_links' = IF auto_export /\ collected # <<>>
                              THEN OptExportToSheets(raw_links, collected, ok)
                              ELSE raw_links
    /\ is_collecting' = FALSE
    /\ pc' = "idle"
    /\ last' = NoResult /\ calls' = <<>>
    /\ RunIsOver
    /\ UNCHANGED <<app, limiterVars, computed, is_rating, collected_videos, used_queries, stats, discarded,
                   tobe_links, time_comments, used_queries_sheet, rated, boundVars>>

\* main, "Reset" (both programs)
Reset ==
    /\ pc = "idle" /\ ~is_rating
    /\ collected_videos # <<>> \/ stats # ZeroStats
    /\ collected_videos' = <<>>
    /\ stats' = ZeroStats
    /\ last' = NoResult /\ calls' = <<>>
    /\ UNCHANGED <<app, limiterVars, computed, selected, pc, is_collecting, is_rating, used_queries, sheetVars,
                   collectorVars, paramVars, loopVars, run_state, fatal_seen,
                   all_empty, rated, boundVars>>

\* main, "Manual Export" (collector): the whole session list is exported
ManualExport(n) ==
    /\ app = "collector" /\ pc = "idle"
    /\ collected_videos # <<>>
    /\ n \in 0..Len(collected_videos)
    /\ exports' = exports + 1
    /\ raw_links' = ExportToSheets(raw_links, collected_videos, n)
    /\ last' = NoResult /\ calls' = <<>>
    /\ UNCHANGED <<app, limiterVars, computed, selected, pc, sessionVars, discarded, tobe_links, time_comments,
                   used_queries_sheet, collectorVars, paramVars, loopVars, run_state,
                   fatal_seen, all_empty, rated, passes>>

\* ------------------------------------------------- collector: the rater
\* fetch_video_data and calculate_category_score: an exception, or an
\* analysis with a final score (in tenths) and its timestamped moments
Scores == {0, 64, 65, 100}
AnalysisOutcomes ==
    {[kind |-> "error", score |-> 0, moments |-> 0]} \cup
    {[kind |-> "scored", score |-> sc, moments |-> m] : sc \in Scores, m \in 0..MaxMoments}

\* the row add_to_tobe_links appends
TobeRow(row, analysis) ==
    [video_id |-> row.video_id, url |-> row.url, category |-> row.category,
     score |-> analysis.score]

\* the rows add_time_comments appends, n of them before a call fails
TimeRows(row, n) == [i \in 1..n |-> [video_id |-> row.video_id, video_url |-> row.url]]

\* add_to_discarded: nothing for an empty URL, nothing when the call fails
AddToDiscarded(urls, url, ok) == IF url # "" /\ ok THEN urls \cup {url} ELSE urls

\* delete_raw_video(row_number = 2): the first data row goes unless the call fails
DeleteRawVideo(rows, ok) == IF ok THEN Tail(rows) ELSE rows

\* what the step reports of a rating pass
Rated(tag, row, score) ==
    [tag |-> tag, video_id |-> row.video_id, url |-> row.url, score |-> score]

\* main, "Start Rating"
StartRating ==
    /\ app = "collector" /\ pc = "idle" /\ ~is_rating
    /\ is_rating' = TRUE
    /\ last' = NoResult /\ calls' = <<>> /\ rated' = NoResult
    /\ UNCHANGED <<app, limiterVars, computed, selected, pc, is_collecting, collected_videos, used_queries, stats,
                   sheetVars, collectorVars, paramVars, loopVars, run_state,
                   fatal_seen, all_empty, boundVars>>

\* main, "Stop Rating"
StopRating ==
    /\ app = "collector" /\ pc = "idle" /\ is_rating
    /\ is_rating' = FALSE
    /\ last' = NoResult /\ calls' = <<>> /\ rated' = NoResult
    /\ UNCHANGED <<app, limiterVars, computed, selected, pc, is_collecting, collected_videos, used_queries, stats,
                   sheetVars, collectorVars, paramVars, loopVars, run_state,
                   fatal_seen, all_empty, boundVars>>

\* main lines 1698-1830: one pass of the rating loop, up to its rerun
RatePass(okClients, quota_available, okGet, analysis, okDisc, okDel, okTobe, nTime) ==
    /\ app = "collector" /\ pc = "idle" /\ is_rating
    /\ nTime \in 0..analysis.moments
    /\ passes' = passes + 1
    /\ last' = NoResult /\ calls' = <<>>
    /\ IF ~okClients
         THEN \* "Rating error"
              /\ is_rating' = FALSE /\ rated' = [tag |-> "error"]
              /\ UNCHANGED <<raw_links, discarded, tobe_links, time_comments>>
       ELSE IF ~quota_available
         THEN /\ is_rating' = FALSE /\ rated' = [tag |-> "quota"]
              /\ UNCHANGED <<raw_links, discarded, tobe_links, time_comments>>
       ELSE IF ~okGet \/ raw_links = <<>>
         THEN \* get_next_raw_video gave None: "All videos have been processed"
              /\ is_rating' = FALSE /\ rated' = [tag |-> "none"]
              /\ UNCHANGED <<raw_links, discarded, tobe_links, time_comments>>
       ELSE LET row == Head(raw_links) IN
            /\ is_rating' = TRUE
            /\ discarded' = AddToDiscarded(discarded, row.url, okDisc)
            /\ raw_links' = DeleteRawVideo(raw_links, okDel)
            /\ IF row.video_id = ""
                 THEN /\ rated' = Rated("missing_id", row, 0)
                      /\ UNCHANGED <<tobe_links, time_comments>>
               ELSE IF analysis.kind = "error"
                 THEN /\ rated' = Rated("failed", row, 0)
                      /\ UNCHANGED <<tobe_links, time_comments>>
               ELSE /\ rated' = Rated("scored", row, analysis.score)
                    /\ IF analysis.score >= PromoteThreshold
                         THEN /\ tobe_links' = IF okTobe
                                               THEN Append(tobe_links, TobeRow(row, analysis))
                                               ELSE tobe_links
                              /\ time_comments' = time_comments \o TimeRows(row, nTime)
                         ELSE UNCHANGED <<tobe_links, time_comments>>
    /\ UNCHANGED <<app, limiterVars, computed, selected, pc, is_collecting, collected_videos, used_queries, stats,
                   used_queries_sheet, collectorVars, paramVars, loopVars, run_state,
                   fatal_seen, all_empty, exports>>

\* ---------------------------------------------------------- the states
\* The state after the page is first loaded: the session state of lines
\* 98-113, a spreadsheet that may hold rows of earlier sessions.
InitState(apps, pending0, discarded0) ==
    /\ app \in apps
    /\ is_collecting = FALSE /\ is_rating = FALSE
    /\ collected_videos = <<>> /\ used_queries = {} /\ stats = ZeroStats
    /\ raw_links \in pending0 /\ discarded \in discarded0
    /\ tobe_links = <<>> /\ time_comments = <<>> /\ used_queries_sheet = {}
    /\ existing_sheet_ids = {} /\ discarded_urls = {}
    /\ pc = "idle"
    /\ target_count = 1 /\ category = "heartwarming"
    /\ require_captions = TRUE /\ auto_export = TRUE
    /\ collected = <<>> /\ category_index = 0 /\ attempts = 0
    /\ videos_checked_ids = {} /\ consecutive_failures = 0
    /\ query = <<>> /\ pages_fetched = 0 /\ search_results = <<>>
    /\ next_page_token = FALSE /\ videos_found = 0
    /\ run_state = "Idle" /\ last = NoResult /\ calls = <<>>
    /\ fatal_seen = FALSE /\ all_empty = TRUE /\ rated = NoResult /\ selected = {}
    /\ exports = 0 /\ passes = 0
    /\ LimiterInit

InitWith(apps, pending0, discarded0) ==
    InitState(apps, pending0, discarded0) /\ computed = NoCall


\* ---------------------------------------------------- specifications
\* LoopSpec: the first collection run of a session of either program, over
\* an empty spreadsheet, with every outcome of the search and metadata calls.
LoopTargets == {1, 5}
LoopModes == {"funny"}
LoopDetails == {[kind |-> "not_found"], [kind |-> "quotaExceeded"]} \cup
    {d \in FoundDetails : /\ d.caption /\ d.kw /\ ~d.old /\ d.tags = "plain"
                          /\ d.duration.seconds # 45 /\ d.duration.seconds # 75
                          /\ d.statistics.has = "viewCount"
                          /\ d.statistics.viewCount = 10000}
LoopOEmbed == {[kind |-> "ok", title |-> "plain", short |-> FALSE], [kind |-> "fail"]}

LoopOutcomes == {"ok", "quotaExceeded", "forbidden"}
\* once the API has reported an exhausted quota or a refused key, it serves
\* no further request of the run
StillServed(kind) == fatal_seen => kind \notin {"ok", "found", "not_found"}

PlainPages == {p \in SearchPages : \A i \in 1..Len(p) : p[i].title = "plain"}

LoopInit == InitWith({"collector", "optimized"}, {<<>>}, {{}})

LoopNext ==
    \/ \E tc \in LoopTargets, mode \in LoopModes :
         run_state = "Idle" /\ StartCollection(tc, mode, TRUE, TRUE, TRUE, TRUE, TRUE, TRUE)
    \/ \E q \in UNION {SearchQueries(CategoryNames[i]) : i \in 1..3} : SelectQuery(q)
    \/ \E out \in LoopOutcomes, items \in SearchPages, token \in BOOLEAN :
         StillServed(out) /\ SearchPage(out, items, token)
    \/ \E resp \in LoopDetails : StillServed(resp.kind) /\ ProcessItem(resp)
    \/ EndPage
    \/ SaveUsedQuery(TRUE)
    \/ \E n \in 0..MaxVideos : ReturnCollected(n)
    \/ \E tc \in LoopTargets, mode \in LoopModes :
         run_state = "Idle" /\ OptStartCollection(tc, mode, TRUE)
    \/ \E q \in UNION {SearchQueries(CategoryNames[i]) : i \in 1..3},
          out \in LoopOutcomes, items \in PlainPages :
         StillServed(out) /\ OptSearch(q, out, items)
    \/ \E oembed \in LoopOEmbed, resp \in LoopDetails :
         StillServed(resp.kind) /\ OptProcessItem(oembed, resp)
    \/ OptEndQuery
    \/ \E ok \in BOOLEAN : OptReturnCollected(ok)

LoopSpec == LoopInit /\ [][LoopNext]_vars

SessionDetails == {[kind |-> "not_found"]} \cup
    {d \in LoopDetails : d.kind = "found" /\ d.duration.parses}
SessionPages == {<<>>, <<[id |-> "1", title |-> "plain"]>>,
                 <<[id |-> "2", title |-> "plain"], [id |-> "1", title |-> "plain"]>>}
SheetRows == {[video_id |-> v, url |-> VideoUrl(v), category |-> "funny"] : v \in VideoIds}
             \cup {[video_id |-> "", url |-> "", category |-> "funny"]}
RatePending == {<<>>} \cup {<<r>> : r \in SheetRows}
               \cup {p \in [1..2 -> SheetRows] : p[1] # p[2]}
\* StopSpec: the first collection run of a session of either program,
\* during which the running flag may be cleared.
StopNext ==
    \/ run_state = "Idle" /\ StartCollection(1, "funny", TRUE, TRUE, TRUE, TRUE, TRUE, TRUE)
    \/ \E q \in SearchQueries("funny") : SelectQuery(q)
    \/ \E items \in SessionPages : SearchPage("ok", items, FALSE)
    \/ \E resp \in SessionDetails : ProcessItem(resp)
    \/ EndPage
    \/ SaveUsedQuery(TRUE)
    \/ \E n \in 0..MaxVideos : ReturnCollected(n)
    \/ run_state = "Idle" /\ OptStartCollection(1, "funny", TRUE)
    \/ \E q \in SearchQueries("funny"), items \in SessionPages : OptSearch(q, "ok", items)
    \/ \E oembed \in LoopOEmbed, resp \in SessionDetails : OptProcessItem(oembed, resp)
    \/ OptEndQuery
    \/ \E ok \in BOOLEAN : OptReturnCollected(ok)
    \/ Stop

StopSpec == LoopInit /\ [][StopNext]_vars

\* RotateSpec: the first collection run of a session of either program in
\* mixed mode, with a target the run cannot reach, so that a query yields
\* from no accepted video up to StayThreshold of them and the categories
\* come round again.
AllQueries == UNION {SearchQueries(CategoryNames[i]) : i \in 1..Len(CategoryNames)}
RotatePages == {<<>>, <<[id |-> "1", title |-> "plain"]>>,
                <<[id |-> "2", title |-> "plain"], [id |-> "1", title |-> "plain"]>>,
                [i \in 1..StayThreshold |-> [id |-> ToString(i), title |-> "plain"]]}

RotateNext ==
    \/ run_state = "Idle" /\ StartCollection(5, "mixed", TRUE, TRUE, TRUE, TRUE, TRUE, TRUE)
    \/ \E q \in AllQueries : SelectQuery(q)
    \/ \E items \in RotatePages : SearchPage("ok", items, FALSE)
    \/ \E resp \in SessionDetails : ProcessItem(resp)
    \/ EndPage
    \/ SaveUsedQuery(TRUE)
    \/ \E n \in 0..MaxVideos : ReturnCollected(n)
    \/ run_state = "Idle" /\ OptStartCollection(5, "mixed", TRUE)
    \/ \E i \in 1..Len(CategoryNames), items \in RotatePages :
         OptSearch(<<CategoryNames[i], 1>>, "ok", items)
    \/ \E resp \in SessionDetails :
         OptProcessItem([kind |-> "ok", title |-> "plain", short |-> FALSE], resp)
    \/ OptEndQuery
    \/ \E ok \in BOOLEAN : OptReturnCollected(ok)

RotateSpec == LoopInit /\ [][RotateNext]_vars

\* ValidateSpec: one validation of either program, applied to a candidate in
\* the middle of a run, over every session list, pending store and discarded
\* set and every response of the oEmbed and metadata calls.
AcceptedRecord(v) ==
    [video_id |-> v, url |-> VideoUrl(v), category |-> "funny",
     duration_seconds |-> MinDurationSeconds, view_count |-> MinViewCount]
SessionLists ==
    UNION {{p \in [1..n -> {AcceptedRecord(v) : v \in VideoIds}] :
               \A i, j \in 1..n : p[i] = p[j] => i = j} : n \in 0..MaxVideos}
ValidateDetailsResponses == FoundDetails \cup FailedDetails
ValidateOEmbedResponses == OEmbedOk \cup OEmbedFailed

ValidateInit ==
    /\ app \in {"collector", "optimized"}
    /\ is_collecting = TRUE /\ is_rating = FALSE
    /\ collected_videos \in SessionLists
    /\ used_queries = IF app = "collector" THEN {<<"funny", 1>>} ELSE {}
    /\ stats = IF app = "collector" THEN ZeroStats
               ELSE [ZeroStats EXCEPT !.quota_used = SearchQuotaCost]
    /\ raw_links \in (IF app = "collector" THEN RatePending ELSE {<<>>})
    /\ discarded \in (IF app = "collector"
                      THEN SUBSET {VideoUrl(v) : v \in VideoIds} ELSE {{}})
    /\ tobe_links = <<>> /\ time_comments = <<>> /\ used_queries_sheet = {}
    /\ existing_sheet_ids = IF app = "collector"
                            THEN LoadExistingSheetIds(TRUE, raw_links) ELSE {}
    /\ discarded_urls = IF app = "collector" THEN LoadSet(TRUE, discarded) ELSE {}
    /\ pc = "items"
    /\ target_count = 5 /\ category = "funny"
    /\ require_captions \in (IF app = "collector" THEN BOOLEAN ELSE {TRUE})
    /\ auto_export = TRUE
    /\ collected = <<>> /\ category_index = 0 /\ attempts = 0
    /\ videos_checked_ids = {} /\ consecutive_failures = 0
    /\ query = IF app = "collector" THEN <<"funny", 1>> ELSE <<>>
    /\ pages_fetched = IF app = "collector" THEN 1 ELSE 0
    /\ search_results \in {<<[id |-> v, title |-> "plain"]>> : v \in VideoIds}
    /\ next_page_token = FALSE /\ videos_found = 0
    /\ run_state = "Running" /\ last = NoResult /\ calls = <<"search.list">>
    /\ fatal_seen = FALSE /\ all_empty = FALSE /\ rated = NoResult /\ selected = {}
    /\ exports = 0 /\ passes = 0
    /\ LimiterInit /\ computed = NoCall

ValidateNext ==
    \/ \E resp \in ValidateDetailsResponses : ProcessItem(resp)
    \/ \E oembed \in ValidateOEmbedResponses, resp \in ValidateDetailsResponses :
         OptProcessItem(oembed, resp)

ValidateSpec == ValidateInit /\ [][ValidateNext]_vars

\* MetadataSpec: one validation of either program of a candidate that is in
\* no list and no store, over every response of the oEmbed and metadata calls.
MetadataInit ==
    /\ ValidateInit
    /\ collected_videos = <<>> /\ raw_links = <<>> /\ discarded = {}
    /\ search_results = <<[id |-> "1", title |-> "plain"]>>

MetadataSpec == MetadataInit /\ [][ValidateNext]_vars

\* RateSpec: the rater over a pending store left by earlier sessions; a row
\* may lack its id and URL.

RateInit == InitWith({"collector"}, RatePending, {{}})

RateNext ==
    \/ StartRating
    \/ StopRating
    \/ \E okClients \in BOOLEAN, quota_available \in BOOLEAN, okGet \in BOOLEAN :
         /\ passes < MaxPasses
         /\ RatePass(okClients, quota_available, okGet,
                     [kind |-> "error", score |-> 0, moments |-> 0],
                     TRUE, TRUE, TRUE, 0)
    \/ \E analysis \in AnalysisOutcomes, okDisc \in BOOLEAN, okDel \in BOOLEAN,
          okTobe \in BOOLEAN, nTime \in 0..MaxMoments :
         /\ passes < MaxPasses
         /\ RatePass(TRUE, TRUE, TRUE, analysis, okDisc, okDel, okTobe, nTime)

RateSpec == RateInit /\ [][RateNext]_vars

\* Spec: a session of the collector program over a spreadsheet that may hold
\* a pending row: rating passes, one collection run with its export, manual
\* export and reset, in any order.
SessionAnalyses == {a \in AnalysisOutcomes : a.score \in {0, 65} /\ a.moments = 0}
SessionPending == {<<>>, <<[video_id |-> "1", url |-> VideoUrl("1"), category |-> "funny"]>>}

Init == InitWith({"collector"}, SessionPending, {{}})

Next ==
    \/ \E ae \in BOOLEAN, okIds \in BOOLEAN, okDisc \in BOOLEAN :
         run_state = "Idle" /\ StartCollection(1, "funny", TRUE, ae, TRUE, okIds, okDisc, TRUE)
    \/ \E q \in SearchQueries("funny") : SelectQuery(q)
    \/ \E items \in SessionPages : SearchPage("ok", items, FALSE)
    \/ \E resp \in SessionDetails : ProcessItem(resp)
    \/ EndPage
    \/ SaveUsedQuery(TRUE)
    \/ \E n \in 0..MaxVideos : ReturnCollected(n)
    \/ \E n \in 0..MaxVideos : exports < MaxExports /\ ManualExport(n)
    \/ Reset
    \/ StartRating
    \/ StopRating
    \/ \E analysis \in SessionAnalyses, okDisc \in BOOLEAN, okTobe \in BOOLEAN :
         /\ passes < MaxPasses
         /\ RatePass(TRUE, TRUE, TRUE, analysis, okDisc, TRUE, okTobe, 0)

Spec == Init /\ [][Next]_vars

\* ------------------------------------------------------ the rate limiter
\* every variable but the limiter's and the rater's last return value
programVars == <<app, pc, sessionVars, sheetVars, collectorVars, paramVars, loopVars,
                 obsVars, boundVars>>

\* [t for t in sheets_api_timestamps if current_time - t < 100]
InWindow(timestamps, current_time) ==
    SelectSeq(timestamps, LAMBDA t : current_time - t < WindowLength)

\* wait_if_needed, lines 199-210: the sleep of a call that arrives at
\* current_time, from the minimum spacing and from the sliding window
DelayNeededWindowOnly(time_since_last, timestamps, current_time) ==
    IF Len(timestamps) >= max_requests_per_100s
    THEN LET wait_for_window ==
                 WindowLength - (current_time - timestamps[1]) + OneSecond
         IN  IF wait_for_window > 0 THEN wait_for_window ELSE 0
    ELSE 0

DelayNeeded(time_since_last, timestamps, current_time) ==
    LET spacing == IF time_since_last < min_delay
                   THEN min_delay - time_since_last ELSE 0
    IN  IF Len(timestamps) >= max_requests_per_100s
        THEN LET wait_for_window ==
                     WindowLength - (current_time - timestamps[1]) + OneSecond
             IN  IF wait_for_window > spacing THEN wait_for_window ELSE spacing
        ELSE spacing

\* wait_if_needed, called gap eighths of a second after the last recorded
\* request: prune the window, sleep, record the time after the sleep (a
\* sleep that lasts as long as asked; a longer one only widens the spacing).
\* The times are then counted again from the request just recorded.
WaitIfNeeded(gap) ==
    LET current_time == gap
        timestamps == InWindow(sheets_api_timestamps, current_time)
        delay == DelayNeeded(current_time - sheets_last_request, timestamps,
                             current_time)
        recorded == current_time + delay
    IN  /\ delay_needed' = delay
        /\ sheets_last_request' = recorded - recorded
        /\ sheets_api_timestamps' =
               [i \in 1..Len(timestamps) |-> timestamps[i] - recorded] \o <<0>>
        /\ UNCHANGED <<programVars, min_delay, computed>>

\* get_next_raw_video, lines 277-279: a quota or rate error of the backend
\* raises the spacing, min_delay = min(min_delay * 1.5, 5.0)
\* min(self.min_delay * 1.5, 5.0)
RaisedMinDelay(d) ==
    IF (d * 3) \div 2 < MaxMinDelay THEN (d * 3) \div 2 ELSE MaxMinDelay

\* the spacing after n such errors
RECURSIVE MinDelayAfter(_)
MinDelayAfter(n) == IF n = 0 THEN MinDelay ELSE RaisedMinDelay(MinDelayAfter(n - 1))

Backoff ==
    /\ min_delay < MinDelayAfter(MaxBackoffs)
    /\ min_delay' = RaisedMinDelay(min_delay)
    /\ UNCHANGED <<programVars, sheets_api_timestamps, sheets_last_request,
                   delay_needed, computed>>

\* LimiterSpec: any sequence of wait_if_needed calls on one exporter: a call
\* arrives at once, within the spacing, or after the window has passed.
ArrivalGaps == {0, 5, SinceEpoch}

LimiterNext ==
    \/ \E gap \in ArrivalGaps : WaitIfNeeded(gap)
    \/ Backoff

\* the collector program over an empty spreadsheet
CollectorInit == InitWith({"collector"}, {<<>>}, {{}})

LimiterSpec == CollectorInit /\ [][LimiterNext]_vars

\* ------------------------------------------------- the comment fetcher
\* commentThreads of one ordering: status 200 with the texts of its items,
\* another status, or a request that raises
CommentTexts == {"nice", "so funny", "great video"}
CommentItems == UNION {[1..n -> CommentTexts] : n \in 0..MaxItems}
CommentResponses == {[kind |-> "ok", items |-> i] : i \in CommentItems}
                    \cup {[kind |-> "error", items |-> <<>>],
                          [kind |-> "raise", items |-> <<>>]}

\* len(comment_text.strip()) > 5
LongEnough(comment_text) == Len(comment_text) > 5

\* for item in data.get('items', []), lines 1103-1114: a text that is new
\* and long enough is appended, and the loop over the items of this
\* response is left once the list has reached max_results
RECURSIVE AddComments(_, _, _)
AddComments(comments, items, max_results) ==
    IF items = <<>> THEN comments
    ELSE LET comment_text == Head(items)
         IN  IF /\ \A i \in 1..Len(comments) : comments[i] # comment_text
                /\ LongEnough(comment_text)
             THEN IF Len(comments) + 1 >= max_results
                  THEN Append(comments, comment_text)
                  ELSE AddComments(Append(comments, comment_text), Tail(items),
                                   max_results)
             ELSE AddComments(comments, Tail(items), max_results)

\* for order in ['relevance', 'time'], lines 1089-1116; an exception ends
\* the fetch with what has been gathered
FetchComments(relevance, time, max_results) ==
    IF relevance.kind = "raise" THEN <<>>
    ELSE LET first == IF relevance.kind = "ok"
                      THEN AddComments(<<>>, relevance.items, max_results)
                      ELSE <<>>
         IN  IF time.kind = "ok"
             THEN AddComments(first, time.items, max_results)
             ELSE first

\* one call of fetch_comments, on the arguments and responses drawn for it
FetchCommentsCall ==
    /\ computed.fn = "arguments of fetch_comments"
    /\ computed' = [fn |-> "fetch_comments", max_results |-> computed.max_results,
                    relevance |-> computed.relevance, time |-> computed.time,
                    comments |-> FetchComments(computed.relevance, computed.time,
                                              computed.max_results)]
    /\ UNCHANGED <<programVars, limiterVars>>

\* CommentsSpec: fetch_comments on any two responses, with a limit below,
\* at and above what two responses can hold
CommentLimits == 1..(2 * MaxItems + 1)

CommentsInit ==
    /\ InitState({"collector"}, {<<>>}, {{}})
    /\ computed \in [fn : {"arguments of fetch_comments"},
                     max_results : CommentLimits,
                     relevance : CommentResponses, time : CommentResponses]

CommentsNext == FetchCommentsCall

CommentsSpec == CommentsInit /\ [][CommentsNext]_vars

\* --------------------------------------------------------- the scorer
\* Component values are counted in thousandths, rounded down; scores in
\* millionths of a point, so that every product of the scorer is exact.
\* video_data as the scorer reads it: the number of fetched comments, how
\* many words of the category's three word lists their text holds, how
\* many category keywords the title and description hold, the statistics.
CommentCounts == {0, 1, 101, 501}
WordCounts == {0, 1, 3}
KeywordMatches == {0, 1, 5}
ScoreCategories == {"heartwarming", "funny", "traumatic", "other"}
ScoreInputs ==
    {v \in [comments : CommentCounts, words : [1..3 -> WordCounts],
            keyword_matches : KeywordMatches, viewCount : {0, 10000},
            likeCount : {0, 50, 200}, commentCount : {0, 50}] :
        v.comments = 0 => \A i \in 1..3 : v.words[i] = 0}

Least(a, b) == IF a < b THEN a ELSE b
Greatest(a, b) == IF a > b THEN a ELSE b

\* min(count / max(len(comments) * share, 1), 1.0), share in hundredths
ShareOfComments(count, comments, share) ==
    Least((count * 100000) \div Greatest(comments * share, 100), 1000)

Analysis(validation, emotional, authenticity) ==
    [category_validation |-> validation, emotional_alignment |-> emotional,
     authenticity_support |-> authenticity]

\* a category other than the three: every value is 0.5
NeutralAnalysis == Analysis(500, 500, 500)

\* if not comments: every value is 0.0
NoCommentsAnalysisNeutral == Analysis(500, 500, 500)

NoCommentsAnalysis == Analysis(0, 0, 0)

\* analyze_comments_for_category
AnalyzeCommentsForCategory(comments, words, category_key) ==
    IF comments = 0 THEN NoCommentsAnalysis
    ELSE IF category_key = "heartwarming"
    THEN Analysis(ShareOfComments(words[1], comments, 5),
                  ShareOfComments(words[1], comments, 3),
                  Greatest(100, Least((words[2] * 500) \div Greatest(words[3] + 1, 1),
                                      1000)))
    ELSE IF category_key = "funny"
    THEN Analysis(ShareOfComments(words[1], comments, 3),
                  ShareOfComments(words[1], comments, 2),
                  IF words[1] = words[3] THEN 500
                  ELSE Least(800, Greatest(200,
                           (words[1] * 400) \div Greatest(words[3] + 1, 1))))
    ELSE IF category_key = "traumatic"
    THEN LET appropriate_total == words[1] + words[2]
             validation == ShareOfComments(appropriate_total, comments, 5)
         IN  Analysis(IF words[3] > appropriate_total
                      THEN (validation * 3) \div 10 ELSE validation,
                      ShareOfComments(words[1], comments, 3),
                      Least(800, Greatest(200,
                          (appropriate_total * 300) \div Greatest(words[3] + 1, 1))))
    ELSE NeutralAnalysis

\* weights, in hundredths, and base_score of the category
Weights(category_key) ==
    IF category_key = "heartwarming"
    THEN [comment_validation |-> 35, comment_emotional |-> 25,
          comment_authenticity |-> 20, content_match |-> 15, engagement |-> 5]
    ELSE IF category_key = "funny"
    THEN [comment_validation |-> 40, comment_emotional |-> 20,
          comment_authenticity |-> 25, content_match |-> 10, engagement |-> 5]
    ELSE [comment_validation |-> 35, comment_emotional |-> 30,
          comment_authenticity |-> 20, content_match |-> 10, engagement |-> 5]

BaseScore(category_key) ==
    IF category_key = "heartwarming" THEN 3000000
    ELSE IF category_key = "funny" THEN 2500000 ELSE 4000000

\* content_match and engagement
ComponentScores(video_data, comments_analysis) ==
    [comment_validation |-> comments_analysis.category_validation,
     comment_emotional |-> comments_analysis.emotional_alignment,
     comment_authenticity |-> comments_analysis.authenticity_support,
     content_match |-> Least(video_data.keyword_matches * 200, 1000),
     engagement |->
        IF video_data.viewCount > 0
        THEN Least(((video_data.likeCount + video_data.commentCount) * 100000)
                       \div video_data.viewCount, 1000)
        ELSE 500]

\* base_score + sum(component_scores[key] * weights[key]) * 7.0, and one
\* point more when category_validation > 0.8
ScoreBeforePenalty(component_scores, category_key) ==
    LET weights == Weights(category_key)
        weighted_score ==
            (component_scores.comment_validation * weights.comment_validation
             + component_scores.comment_emotional * weights.comment_emotional
             + component_scores.comment_authenticity * weights.comment_authenticity
             + component_scores.content_match * weights.content_match
             + component_scores.engagement * weights.engagement) * 70
    IN  BaseScore(category_key) + weighted_score
        + (IF component_scores.comment_validation > 800 THEN 1000000 ELSE 0)

\* if authenticity_support < 0.2: final_score *= 0.6
AuthenticityPenaltyWithoutCommentsOnly(final_score, authenticity_support) ==
    IF authenticity_support = 0 THEN (final_score * 6) \div 10 ELSE final_score

AuthenticityPenalty(final_score, authenticity_support) ==
    IF authenticity_support < 200 THEN (final_score * 6) \div 10 ELSE final_score

\* min(final_score, 10.0)
ClampScoreNever(final_score) == final_score

ClampScore(final_score) == Least(final_score, 10000000)

\* confidence, in thousandths
Confidence(comments, category_validation) ==
    Least(300 + (IF comments > 100 THEN 300 ELSE 0)
              + (IF comments > 500 THEN 200 ELSE 0)
              + (IF category_validation > 600 THEN 200 ELSE 0), 1000)

\* calculate_category_score
CalculateCategoryScore(video_data, category_key) ==
    LET comments_analysis ==
            AnalyzeCommentsForCategory(video_data.comments, video_data.words,
                                       category_key)
        component_scores == ComponentScores(video_data, comments_analysis)
    IN  [final_score |->
             ClampScore(AuthenticityPenalty(
                 ScoreBeforePenalty(component_scores, category_key),
                 comments_analysis.authenticity_support)),
         confidence |-> Confidence(video_data.comments,
                                   comments_analysis.category_validation),
         component_scores |-> component_scores,
         comments_analysis |-> comments_analysis]

\* one call of calculate_category_score, on the arguments drawn for it
ScoreCall ==
    /\ computed.fn = "arguments of calculate_category_score"
    /\ computed' = [fn |-> "calculate_category_score",
                    video_data |-> computed.video_data,
                    category_key |-> computed.category_key,
                    analysis |-> CalculateCategoryScore(computed.video_data,
                                                        computed.category_key)]
    /\ UNCHANGED <<programVars, limiterVars>>

\* ScoreSpec: the scorer on any video data and category
ScoreInit ==
    /\ InitState({"collector"}, {<<>>}, {{}})
    /\ computed \in [fn : {"arguments of calculate_category_score"},
                     video_data : ScoreInputs, category_key : ScoreCategories]

ScoreNext == ScoreCall

ScoreSpec == ScoreInit /\ [][ScoreNext]_vars

\* ------------------------------------------- the calls of the exporters
\* The calls a persistence operation issues, in order: wait_if_needed of
\* the rate limiter and the calls to the spreadsheet backend.
BackendCalls == {"open_by_key", "open", "create", "worksheet", "add_worksheet",
                 "get_all_values", "append_row", "append_rows", "delete_rows",
                 "clear", "update"}

RECURSIVE Times(_, _)
Times(n, cs) == IF n = 0 THEN <<>> ELSE cs \o Times(n - 1, cs)

\* collector: wait_if_needed, then get_spreadsheet_by_id (lines 246-253)
OpenById == <<"wait_if_needed", "wait_if_needed", "open_by_key">>

\* collector: spreadsheet.worksheet(name), and on WorksheetNotFound
\* add_worksheet followed by the header row where the method writes one
Worksheet(found, header) ==
    <<"wait_if_needed", "worksheet">> \o
    (IF found THEN <<>>
     ELSE <<"wait_if_needed", "add_worksheet">> \o
          (IF header THEN <<"wait_if_needed", "append_row">> ELSE <<>>))

\* collector: export_to_sheets (lines 429-478) of n videos
ExportCalls(by_id, spreadsheet_found, worksheet_found, has_rows, n) ==
    (IF by_id THEN OpenById
     ELSE <<"wait_if_needed", "open">> \o
          (IF spreadsheet_found THEN <<>> ELSE <<"wait_if_needed", "create">>))
    \o Worksheet(worksheet_found, FALSE)
    \o (IF n = 0 THEN <<>>
        ELSE <<"wait_if_needed", "get_all_values">> \o
             (IF has_rows THEN <<>>
              ELSE <<"wait_if_needed", "clear", "wait_if_needed", "append_row">>)
             \o Times(n, <<"wait_if_needed", "append_row">>))

\* collector: the complete call sequences of the exporter's methods
CollectorOperations ==
    \* get_next_raw_video, load_existing_sheet_ids
    {OpenById \o Worksheet(TRUE, FALSE) \o <<"wait_if_needed", "get_all_values">>}
    \* delete_raw_video
    \cup {OpenById \o Worksheet(TRUE, FALSE) \o <<"wait_if_needed", "delete_rows">>}
    \* add_to_tobe_links, add_to_discarded, save_used_query
    \cup {OpenById \o Worksheet(found, TRUE) \o <<"wait_if_needed", "append_row">> :
             found \in BOOLEAN}
    \* load_discarded_urls
    \cup {OpenById \o Worksheet(TRUE, FALSE) \o <<"wait_if_needed", "get_all_values">>,
          OpenById \o <<"wait_if_needed", "worksheet">>}
    \* load_used_queries
    \cup {OpenById \o Worksheet(FALSE, TRUE)}
    \* add_time_comments
    \cup {OpenById \o Worksheet(found, TRUE)
              \o Times(n, <<"wait_if_needed", "append_row">>) :
             found \in BOOLEAN, n \in 0..MaxMoments}
    \* export_to_sheets
    \cup {ExportCalls(by_id, sf, wf, has_rows, n) :
             by_id \in BOOLEAN, sf \in BOOLEAN, wf \in BOOLEAN,
             has_rows \in BOOLEAN, n \in 0..MaxVideos}

\* optimized: export_to_sheets (lines 501-540) with get_spreadsheet_by_id
\* and create_or_get_spreadsheet (lines 480-499)
OptExportCalls(by_id, spreadsheet_found, worksheet_found, has_rows, n) ==
    (IF by_id THEN <<"open_by_key">>
     ELSE <<"open">> \o (IF spreadsheet_found THEN <<>> ELSE <<"create">>))
    \o <<"worksheet">>
    \o (IF worksheet_found THEN <<>> ELSE <<"add_worksheet">>)
    \o (IF n = 0 THEN <<>>
        ELSE <<"get_all_values">> \o
             (IF has_rows THEN <<"append_rows">> ELSE <<"clear", "update">>))

OptimizedOperations ==
    {OptExportCalls(by_id, sf, wf, has_rows, n) :
        by_id \in BOOLEAN, sf \in BOOLEAN, wf \in BOOLEAN,
        has_rows \in BOOLEAN, n \in 0..MaxVideos}

\* one persistence operation, seen when it has issued k of its calls: it
\* is complete, or its k-th call has raised and the operation ends there
PersistenceOperation(operation, k) ==
    /\ calls' = SubSeq(operation, 1, k)
    /\ UNCHANGED <<app, pc, sessionVars, sheetVars, collectorVars, paramVars,
                   loopVars, run_state, last, fatal_seen, all_empty, rated,
                   selected, boundVars, limiterVars, computed>>

\* SheetsSpec: every persistence operation of either program
SheetsNext ==
    \E operation \in (IF app = "collector" THEN CollectorOperations
                       ELSE OptimizedOperations) :
        \E k \in 1..Len(operation) : PersistenceOperation(operation, k)

SheetsSpec == LoopInit /\ [][SheetsNext]_vars

\* ------------------------------------------------------------ properties
\* C1: every validation returns a tagged result, Accept or Reject, for every
\* response of the metadata call; no exception leaves validate.
C1_ValidateReturnsTaggedResult == last.tag \in {"None", "Accept", "Reject"}

C3_RatedItemLeavesPending ==
    [][(/\ passes' = passes + 1
        /\ rated'.tag \in {"scored", "failed", "missing_id"})
       => /\ raw_links' = Tail(raw_links)
          /\ rated'.url # "" => rated'.url \in discarded']_vars

\* C4, as stated: no video id is at once in an accepted set (session list,
\* pending store, promoted store) and in the discarded set.
C4_AcceptedDisjointFromDiscarded ==
    \A v \in VideoIds :
        ~ /\ \/ v \in ExistingIds(collected_videos)
             \/ \E i \in 1..Len(raw_links) : raw_links[i].video_id = v
             \/ \E i \in 1..Len(tobe_links) : tobe_links[i].video_id = v
          /\ VideoUrl(v) \in discarded

\* C4, amended: a run accepts no video whose URL is in the discarded set the
\* run loaded (the rater itself puts the URL of every item it rates, promoted
\* or not, into the discarded set).
C4_RunAcceptsNoLoadedDiscarded ==
    /\ \A i \in 1..Len(collected) : collected[i].url \notin discarded_urls
    /\ last.tag = "Accept" => VideoUrl(last.video_id) \notin discarded_urls

\* C4: a run that loaded a discarded URL has accepted a video while the
\* promoted store holds a discarded one.
C4_Witness ==
    /\ discarded_urls # {} /\ collected # <<>>
    /\ \E i \in 1..Len(tobe_links) : tobe_links[i].url \in discarded_urls

\* C5: a run ends because target_count is reached, max_attempts is exhausted
\* or max_consecutive_failures is exceeded, errors raised inside an iteration
\* included.
C5_RunEndsForAStatedReason ==
    [][(pc # "idle" /\ pc' = "idle")
       => \/ Len(collected) >= target_count
          \/ attempts >= (IF app = "collector" THEN max_attempts ELSE max_attempts_opt)
          \/ consecutive_failures >= max_consecutive_failures]_vars

\* C6: once the running flag is cleared during a run, the loop starts no
\* further search.
C6_NoSearchAfterStop ==
    [][(pc # "idle" /\ ~is_collecting)
       => \A i \in 1..Len(calls') : calls'[i] # "search.list"]_vars

\* C7: once the search or metadata API has reported an exhausted quota or a
\* refused key, the run issues no further search or metadata call and ends
\* Aborted.
C7_FatalFailureAbortsRun ==
    [][(pc # "idle" /\ fatal_seen)
       => /\ \A i \in 1..Len(calls') : calls'[i] \notin {"search.list", "videos.list"}
          /\ run_state' = "Aborted"]_vars

C9_PromotedIffScoreReached ==
    [][(/\ passes' = passes + 1
        /\ rated'.tag \in {"scored", "failed"})
       => ((rated'.tag = "scored" /\ rated'.score >= PromoteThreshold)
           <=> /\ Len(tobe_links') = Len(tobe_links) + 1
               /\ tobe_links'[Len(tobe_links')].video_id = rated'.video_id)]_vars

\* C10: a run with target_count = 5 in which every search comes back empty
\* ends at the attempt limit or at the consecutive-failure limit and returns
\* an empty list without an exception.
C10_EmptyRunReturnsEmptyList ==
    [][(pc # "idle" /\ pc' = "idle" /\ target_count = 5 /\ all_empty)
       => /\ run_state' = "Completed"
          /\ collected = <<>>
          /\ \/ attempts >= (IF app = "collector" THEN max_attempts ELSE max_attempts_opt)
             \/ consecutive_failures >= max_consecutive_failures]_vars

\* C11: a selection takes a query of the current category that has not been
\* used while the category has one; a used query is taken again only once
\* all queries of the category are used.  The used queries are the session's
\* used_queries in the collector and the queries selected so far in the
\* optimized program.
C11_UnusedQueryPreferred ==
    [][(pc = "head" /\ (pc' = "page" \/ calls' = <<"search.list">>))
       => LET cat == CurrentCategory(category, category_index)
              used == IF app = "collector" THEN used_queries ELSE selected
              usedAfter == IF app = "collector" THEN used_queries' ELSE selected'
          IN SearchQueries(cat) \ used # {}
               => (usedAfter \ used) \cap SearchQueries(cat) # {}]_vars

\* C12, as stated: in mixed mode the attempt that ends keeps the category
\* index exactly when its query yielded one accepted video, and advances it
\* by one after a yield of zero and after a yield of two or more.  (The yield
\* is that of the only page of the query in the collector, of the query in
\* the optimized program, and zero when the search came back empty.)
C12_CategoryKeptOnlyAfterSingleHit ==
    [][(/\ category = "mixed" /\ attempts' = attempts + 1
        /\ app = "collector" => pages_fetched <= 1)
       => LET yield == IF app = "collector"
                         THEN (IF pages_fetched = 0 THEN 0 ELSE videos_found)
                       ELSE (IF pc = "items" THEN videos_found ELSE 0)
          IN /\ yield = 1 => category_index' = category_index
             /\ yield # 1 => category_index' = category_index + 1]_vars

\* C12, amended: in mixed mode the collector advances the category index
\* after every attempt, whatever the yield; the optimized program advances it
\* after a yield of zero, one or two and keeps it only after a yield of
\* StayThreshold (3) or more.
C12_CategoryKeptOnlyAfterThreeHits ==
    [][(category = "mixed" /\ attempts' = attempts + 1)
       => LET yield == IF pc = "items" THEN videos_found ELSE 0
          IN /\ app = "collector" => category_index' = category_index + 1
             /\ app = "optimized" =>
                  /\ yield < StayThreshold => category_index' = category_index + 1
                  /\ yield >= StayThreshold => category_index' = category_index]_vars

\* C12: the optimized program, in mixed mode, has ended its first attempt
\* with a yield of StayThreshold and is at the head of the loop with the
\* category index it had.
C12_Witness ==
    /\ app = "optimized" /\ category = "mixed" /\ pc = "head"
    /\ attempts = 1 /\ category_index = 0 /\ videos_found = StayThreshold

\* C13: every candidate that leaves the page under examination is classified
\* by the step that takes it: accepted, rejected with a reason, or skipped
\* because its id was already checked; none leaves unclassified, and the
\* counters agree, checked = found + rejected.
C13_NoSilentDrops ==
    [][/\ stats'.checked = stats'.found + stats'.rejected
       /\ (pc = "items" /\ search_results # <<>> /\ search_results' # search_results)
            => /\ search_results' = Tail(search_results)
               /\ \/ /\ last'.tag = "Accept"
                     /\ last'.video_id = Head(search_results).id
                  \/ /\ last'.tag = "Reject" /\ last'.reason # ""
                     /\ last'.video_id = Head(search_results).id
                  \/ /\ last'.tag = "None"
                     /\ Head(search_results).id \in videos_checked_ids]_vars

\* C14: a validation given details whose duration does not parse or whose
\* statistics or viewCount is missing returns a Reject, and the Reject of the
\* floor check concerned when no earlier check rejects: "too short" for the
\* duration, "view count too low" for the statistics.
C14_MalformedMetadataRejectedByFloor ==
    [][LET m == last'.details IN
       (/\ last'.tag # "None" /\ m.kind = "found"
        /\ ~m.duration.parses \/ m.statistics.has # "viewCount")
       => LET early == \/ require_captions /\ ~m.caption
                       \/ app = "optimized" /\ m.old
          IN /\ last'.tag = "Reject"
             /\ (~early /\ ~m.duration.parses) => last'.reason = "Video too short"
             /\ (/\ ~early /\ m.duration.parses
                 /\ m.duration.seconds >= MinDurationSeconds)
                  => last'.reason = "View count too low"]_vars

\* C15: no video id is in two rows of the pending store, after any sequence
\* of a collection run, its auto-export, manual exports and rating passes.
C15_NoIdInTwoPendingRows ==
    \A i, j \in 1..Len(raw_links) :
        (raw_links[i].video_id = raw_links[j].video_id /\ raw_links[i].video_id # "")
            => i = j

\* C16: a step in which a persistence operation fails reports an error
\* outcome and leaves the in-memory state alone: a collection whose load of
\* the pending ids or of the discarded URLs failed does not go on as a
\* running collection, and a rating pass whose write to the discarded or to
\* the promoted store failed does not report the item as rated.
C16_PersistenceFailureSurfaced ==
    [][/\ (/\ pc = "idle" /\ pc' = "head" /\ app = "collector"
           /\ \/ existing_sheet_ids' # LoadExistingSheetIds(TRUE, raw_links)
              \/ discarded_urls' # LoadSet(TRUE, discarded))
            => run_state' # "Running"
       /\ (passes' = passes + 1 /\ rated'.tag \in {"scored", "failed", "missing_id"})
            => /\ rated'.url # "" => rated'.url \in discarded'
               /\ (rated'.tag = "scored" /\ rated'.score >= PromoteThreshold)
                    => tobe_links' # tobe_links
       /\ passes' = passes + 1
            => UNCHANGED <<collected_videos, used_queries, existing_sheet_ids,
                           discarded_urls>>]_vars

\* C17: a validation given details with a duration under 90 seconds returns
\* a Reject whatever the other fields are, and no record of the session list
\* has duration_seconds under 90.
C17_DurationFloor ==
    [][/\ (/\ last'.tag # "None" /\ last'.details.kind = "found"
           /\ last'.details.duration.parses
           /\ last'.details.duration.seconds < 90)
            => last'.tag = "Reject"
       /\ \A i \in 1..Len(collected_videos') :
              collected_videos'[i].duration_seconds >= 90]_vars

\* C17: a 75-second video that passed every check before the duration floor
\* (in the optimized program the short detection too) has been rejected as
\* too short.
C17_Witness ==
    /\ app = "optimized" /\ last.tag = "Reject" /\ last.reason = "Video too short"
    /\ last.details.duration.seconds = 75
    /\ last.details.statistics = [has |-> "viewCount", viewCount |-> 10000]

\* C18: of the candidates that reach the view-count check, one with viewCount
\* 9,999 is rejected with the view-count reason and one with viewCount 10,000
\* is not; no candidate with a viewCount under 10,000 is accepted and no
\* record of the session list has view_count under 10,000.
C18_ViewCountFloor ==
    [][/\ (last'.tag # "None" /\ last'.details.kind = "found")
            => LET m == last'.details
                   reaches == /\ ~(require_captions /\ ~m.caption)
                              /\ ~(app = "optimized" /\ m.old)
                              /\ m.duration.parses /\ m.duration.seconds >= 90
                              /\ m.statistics.has = "viewCount"
               IN /\ (reaches /\ m.statistics.viewCount = 9999)
                       => (last'.tag = "Reject" /\ last'.reason = "View count too low")
                  /\ (reaches /\ m.statistics.viewCount = 10000)
                       => last'.reason # "View count too low"
                  /\ (m.statistics.has = "viewCount" /\ m.statistics.viewCount < 10000)
                       => last'.tag # "Accept"
       /\ \A i \in 1..Len(collected_videos') :
              collected_videos'[i].view_count >= 10000]_vars

\* C18: a candidate with viewCount 10,000 has been accepted.
C18_Witness ==
    /\ last.tag = "Accept" /\ last.details.statistics.viewCount = 10000
    /\ collected_videos # <<>>
    /\ collected_videos[Len(collected_videos)].view_count = 10000

C20_OldVideoRejected ==
    [][(/\ last'.tag # "None" /\ last'.details.kind = "found" /\ last'.details.old
        /\ last'.details.duration.parses
        /\ last'.details.statistics.has # "no_statistics")
       => /\ last'.tag = "Reject"
          /\ collected_videos' = collected_videos]_vars

\* the requests recorded within the 100 s that end at the last recorded
\* request; a window that holds some requests lies within the 100 s that end
\* at the last of them
WindowBound(timestamps) ==
    Cardinality({j \in 1..Len(timestamps) :
                    timestamps[Len(timestamps)] - WindowLength < timestamps[j]})
        <= max_requests_per_100s

\* C24: whenever wait_if_needed records a request, the request is at least
\* min_delay after the one recorded before it, and no window of 100 seconds
\* holds more than max_requests_per_100s recorded requests.
C24_RequestsThrottled ==
    [][sheets_api_timestamps' # sheets_api_timestamps =>
          LET n == Len(sheets_api_timestamps')
          IN  /\ n >= 2 => sheets_api_timestamps'[n] - sheets_api_timestamps'[n - 1]
                               >= min_delay
              /\ WindowBound(sheets_api_timestamps')]_vars

\* a call that arrived early has slept, with a window as full as the spacing
\* lets it become
C24_Witness ==
    /\ delay_needed > 0
    /\ Len(sheets_api_timestamps) > (WindowLength \div MinDelay)

\* C25: the list fetch_comments returns never holds more than max_results
\* comments.
C25_FetchedCommentsBounded ==
    computed.fn = "fetch_comments" =>
        Len(computed.comments) <= computed.max_results

Scored == computed.fn = "calculate_category_score"

\* C21: for any video data and category the scorer's final score lies in
\* [0, 10] and its confidence in [0, 1].
C21_ScoreAndConfidenceClamped ==
    Scored => /\ computed.analysis.final_score >= 0
              /\ computed.analysis.final_score <= 10000000
              /\ computed.analysis.confidence >= 0
              /\ computed.analysis.confidence <= 1000

\* a score whose total exceeded ten points was returned as ten points
C21_Witness ==
    /\ Scored
    /\ ScoreBeforePenalty(computed.analysis.component_scores, computed.category_key)
           > 10000000
    /\ computed.analysis.comments_analysis.authenticity_support >= 200
    /\ computed.analysis.final_score = 10000000

\* C22: whenever authenticity_support is below 0.2 the final score is 0.6
\* times the whole total of base score, weighted sum and validation bonus
\* (clamped at ten points), and otherwise the total itself.
C22_PenaltyAppliedToWholeTotal ==
    Scored =>
        LET total == ScoreBeforePenalty(computed.analysis.component_scores,
                                        computed.category_key)
        IN  computed.analysis.final_score * 10 =
                IF computed.analysis.comments_analysis.authenticity_support < 200
                THEN Least(total * 6, 100000000)
                ELSE Least(total * 10, 100000000)

\* comments were fetched, authenticity_support is 0.1, and the penalty took
\* a total above the promotion threshold below it
C22_Witness ==
    /\ Scored
    /\ computed.video_data.comments > 0
    /\ computed.analysis.comments_analysis.authenticity_support = 100
    /\ ScoreBeforePenalty(computed.analysis.component_scores, computed.category_key)
           >= PromoteThreshold * 100000
    /\ computed.analysis.final_score < PromoteThreshold * 100000

\* C30: a video for which no comment was fetched scores below the promotion
\* threshold, for every category and every metadata, and its analysis has
\* authenticity_support 0.
C30_NoCommentsNeverPromoted ==
    Scored /\ computed.video_data.comments = 0 =>
        /\ computed.analysis.comments_analysis.authenticity_support = 0
        /\ computed.analysis.final_score < PromoteThreshold * 100000

\* the highest score a video without comments can get
C30_Witness ==
    /\ Scored
    /\ computed.video_data.comments = 0
    /\ computed.category_key = "traumatic"
    /\ computed.analysis.component_scores.content_match = 1000
    /\ computed.analysis.component_scores.engagement = 1000
    /\ computed.analysis.final_score = 3030000

C26_RatedVideoNeverAcceptedAgain ==
    [][(/\ last'.tag = "Accept"
        /\ existing_sheet_ids = LoadExistingSheetIds(TRUE, raw_links)
        /\ discarded_urls = LoadSet(TRUE, discarded))
       => \A i \in 1..Len(tobe_links) :
              tobe_links[i].video_id # last'.video_id]_vars

\* C27: whenever a rating pass has removed from the pending store a row that
\* scored at least 6.5, the promoted store holds a row of that video.
C27_PromotionWorthyItemKept ==
    [][(/\ passes' = passes + 1
        /\ rated'.tag = "scored" /\ rated'.score >= PromoteThreshold
        /\ Len(raw_links') < Len(raw_links))
       => \E i \in 1..Len(tobe_links') :
              tobe_links'[i].video_id = rated'.video_id]_vars

\* C28: every pass of the rating loop that leaves the loop running has made
\* the pending store strictly shorter.
C28_PassShortensPending ==
    [][(passes' = passes + 1 /\ is_rating')
       => Len(raw_links') < Len(raw_links)]_vars

\* C29: in every state of a run the records accepted in the run are at most
\* target_count, and a candidate is validated or appended only while they
\* are fewer than target_count.
C29_TargetNeverExceeded ==
    [][/\ Len(collected') <= target_count'
       /\ (last'.tag # "None" \/ Len(collected') > Len(collected))
            => Len(collected) < target_count]_vars

\* the target is reached while the page still holds a candidate
C29_Witness ==
    /\ pc = "items" /\ Len(collected) = target_count /\ search_results # <<>>

=============================================================================
